---- MODULE Spec2Model ----
(***************************************************************************)
(* A model of the FITing-Tree: the Shrinking-Cone segmenter                *)
(* (piecewise_linear_model.h), the read-only index (fiting_tree.h) and the *)
(* buffered index (buffered_segment.h, buffered_fiting_tree.h).            *)
(*                                                                         *)
(* Slopes are long double in the source.  Here a finalized slope is the    *)
(* exact rational num/den (den > 0), and every comparison, truncation and  *)
(* loop count on a long double is computed on that rational with integer   *)
(* arithmetic.  Keys and positions are small naturals, so none of the      *)
(* widened integer products of the source can overflow.                    *)
(***************************************************************************)
EXTENDS Integers, Sequences, FiniteSets, TLC

\* ---------------------------------------------------------------- bounds
MaxKey == 8
MaxN == 5
MaxError == 2
\* The buffered index: template parameters Error and BufferSize, the key
\* universe 0..BMaxKey of the update runs, the bulk size, the positions
\* 0 and MaxPos handed to insert, and the number of calls.
Error == 2
BufferSize == 1
BMaxKey == 4
BMaxN == 3
MaxPos == 5
MaxOps == 3

VARIABLES
    \* get_all_segments / FitingTree
    data,          \* the sorted input keys
    error,         \* the segmentation error (Error)
    i,             \* loop index of get_all_segments
    start,         \* index of the first point of the current segment
    kv,            \* the last point fed, <<key, pos>>
    plm,           \* the PiecewiseLinearModel object
    segments,      \* FitingTree::segments, in emission order
    fiting_tree,   \* the directory: segments in descending start-key order
    pc,            \* "start", "loop" or "done"
    qkey,          \* the key of the last get_approx_pos call (-1: none yet)
    approx,        \* its result
    \* BufferedFitingTree
    bdata,                 \* the keys the index was bulk-loaded with
    n,                     \* BufferedFitingTree::n
    buffered_fiting_tree,  \* the directory: BufferedSegments, descending start keys
    present,               \* reference: the keys currently present, key -> pos
    last,                  \* the last call made on the index
    ret,                   \* what the last find, lower_bound or iteration returned
    ops                    \* number of calls made so far

segvars == <<data, error, i, start, kv, plm, segments, fiting_tree, pc, qkey, approx>>
bufvars == <<bdata, n, buffered_fiting_tree, present, last, ret, ops>>
vars == <<segvars, bufvars>>

\* ---------------------------------------------------------------- helpers
Reverse(s) == [j \in 1..Len(s) |-> s[Len(s) + 1 - j]]

\* Sorted (non-decreasing) key sequences of length 1..MaxN over 0..MaxKey.
SortedSeqs(len) ==
    {s \in [1..len -> 0..MaxKey] : \A j \in 1..(len - 1) : s[j] <= s[j + 1]}

\* Strictly increasing key sequences of length len over 0..maxkey.
IncreasingSeqs(len, maxkey) ==
    {s \in [1..len -> 0..maxkey] : \A j \in 1..(len - 1) : s[j] < s[j + 1]}

\* The values of last and ret before any call.
NoCall == [op |-> "none", key |-> 0, pos |-> 0, absent |-> FALSE, full |-> FALSE]
NoRet == [found |-> FALSE, item |-> [key |-> 0, pos |-> 0, deleted |-> FALSE],
          items |-> <<>>]

\* ------------------------------------------------- PiecewiseLinearModel
\* Slope::operator< and operator>: exact cross-multiplication.
SlopeLt(a, b) == a.dy * b.dx < a.dx * b.dy
SlopeGt(a, b) == a.dy * b.dx > a.dx * b.dy

\* Point::operator-
PointSub(p, q) == [dx |-> p.x - q.x, dy |-> p.y - q.y]

\* The object as constructed: lower_slope = {1, 0}, upper_slope = {0, 1}.
NewPlm ==
    [first_point |-> [x |-> 0, y |-> 0],
     last_point |-> [x |-> 0, y |-> 0],
     lower_slope |-> [dx |-> 1, dy |-> 0],
     upper_slope |-> [dx |-> 0, dy |-> 1],
     points_in_segment |-> 0]

\* add_point with the lower side of the cone forgotten: no test against
\* lower_slope and no tightening of it.
AddPointNoLower(m, x, y, err) ==
    LET current_point == [x |-> x, y |-> y]
        p1 == [x |-> x, y |-> y + err]
        p2 == [x |-> x, y |-> y - err]
    IN  IF m.points_in_segment = 0
        THEN [ok |-> TRUE,
              plm |-> [first_point |-> current_point, last_point |-> current_point,
                       lower_slope |-> [dx |-> 1, dy |-> 0],
                       upper_slope |-> [dx |-> 0, dy |-> 1],
                       points_in_segment |-> 1]]
        ELSE IF m.points_in_segment = 1
        THEN [ok |-> TRUE,
              plm |-> [m EXCEPT !.lower_slope = PointSub(p2, m.first_point),
                                !.upper_slope = PointSub(p1, m.first_point),
                                !.points_in_segment = 2,
                                !.last_point = current_point]]
        ELSE LET slope == PointSub(current_point, m.first_point)
             IN  IF SlopeGt(slope, m.upper_slope)
                 THEN [ok |-> FALSE, plm |-> [m EXCEPT !.points_in_segment = 0]]
                 ELSE [ok |-> TRUE,
                       plm |-> [m EXCEPT
                          !.upper_slope =
                              IF SlopeLt(PointSub(p1, m.first_point), m.upper_slope)
                              THEN PointSub(p1, m.first_point) ELSE m.upper_slope,
                          !.last_point = current_point,
                          !.points_in_segment = m.points_in_segment + 1]]

\* add_point that moves the cone's borders outwards instead of inwards.
AddPointLoosen(m, x, y, err) ==
    LET current_point == [x |-> x, y |-> y]
        p1 == [x |-> x, y |-> y + err]
        p2 == [x |-> x, y |-> y - err]
    IN  IF m.points_in_segment = 0
        THEN [ok |-> TRUE,
              plm |-> [first_point |-> current_point, last_point |-> current_point,
                       lower_slope |-> [dx |-> 1, dy |-> 0],
                       upper_slope |-> [dx |-> 0, dy |-> 1],
                       points_in_segment |-> 1]]
        ELSE IF m.points_in_segment = 1
        THEN [ok |-> TRUE,
              plm |-> [m EXCEPT !.lower_slope = PointSub(p2, m.first_point),
                                !.upper_slope = PointSub(p1, m.first_point),
                                !.points_in_segment = 2,
                                !.last_point = current_point]]
        ELSE LET slope == PointSub(current_point, m.first_point)
             IN  IF SlopeLt(slope, m.lower_slope) \/ SlopeGt(slope, m.upper_slope)
                 THEN [ok |-> FALSE, plm |-> [m EXCEPT !.points_in_segment = 0]]
                 ELSE [ok |-> TRUE,
                       plm |-> [m EXCEPT
                          !.upper_slope =
                              IF SlopeGt(PointSub(p1, m.first_point), m.upper_slope)
                              THEN PointSub(p1, m.first_point) ELSE m.upper_slope,
                          !.lower_slope =
                              IF SlopeLt(PointSub(p2, m.first_point), m.lower_slope)
                              THEN PointSub(p2, m.first_point) ELSE m.lower_slope,
                          !.last_point = current_point,
                          !.points_in_segment = m.points_in_segment + 1]]

\* add_point that also rejects a point whose slope lies on the border of
\* the cone.
AddPointNonStrict(m, x, y, err) ==
    LET current_point == [x |-> x, y |-> y]
        p1 == [x |-> x, y |-> y + err]
        p2 == [x |-> x, y |-> y - err]
    IN  IF m.points_in_segment = 0
        THEN [ok |-> TRUE,
              plm |-> [first_point |-> current_point, last_point |-> current_point,
                       lower_slope |-> [dx |-> 1, dy |-> 0],
                       upper_slope |-> [dx |-> 0, dy |-> 1],
                       points_in_segment |-> 1]]
        ELSE IF m.points_in_segment = 1
        THEN [ok |-> TRUE,
              plm |-> [m EXCEPT !.lower_slope = PointSub(p2, m.first_point),
                                !.upper_slope = PointSub(p1, m.first_point),
                                !.points_in_segment = 2,
                                !.last_point = current_point]]
        ELSE LET slope == PointSub(current_point, m.first_point)
             IN  IF ~SlopeGt(slope, m.lower_slope) \/ ~SlopeLt(slope, m.upper_slope)
                 THEN [ok |-> FALSE, plm |-> [m EXCEPT !.points_in_segment = 0]]
                 ELSE [ok |-> TRUE,
                       plm |-> [m EXCEPT
                          !.upper_slope =
                              IF SlopeLt(PointSub(p1, m.first_point), m.upper_slope)
                              THEN PointSub(p1, m.first_point) ELSE m.upper_slope,
                          !.lower_slope =
                              IF SlopeGt(PointSub(p2, m.first_point), m.lower_slope)
                              THEN PointSub(p2, m.first_point) ELSE m.lower_slope,
                          !.last_point = current_point,
                          !.points_in_segment = m.points_in_segment + 1]]

\* add_point(x, y): returns whether the point was accepted, and the object after.
AddPoint(m, x, y, err) ==
    LET current_point == [x |-> x, y |-> y]
        p1 == [x |-> x, y |-> y + err]
        p2 == [x |-> x, y |-> y - err]
    IN  IF m.points_in_segment = 0
        THEN [ok |-> TRUE,
              plm |-> [first_point |-> current_point, last_point |-> current_point,
                       lower_slope |-> [dx |-> 1, dy |-> 0],
                       upper_slope |-> [dx |-> 0, dy |-> 1],
                       points_in_segment |-> 1]]
        ELSE IF m.points_in_segment = 1
        THEN [ok |-> TRUE,
              plm |-> [m EXCEPT !.lower_slope = PointSub(p2, m.first_point),
                                !.upper_slope = PointSub(p1, m.first_point),
                                !.points_in_segment = 2,
                                !.last_point = current_point]]
        ELSE LET slope == PointSub(current_point, m.first_point)
                 outside_lower_slope == SlopeLt(slope, m.lower_slope)
                 outside_upper_slope == SlopeGt(slope, m.upper_slope)
             IN  IF outside_lower_slope \/ outside_upper_slope
                 THEN [ok |-> FALSE, plm |-> [m EXCEPT !.points_in_segment = 0]]
                 ELSE [ok |-> TRUE,
                       plm |-> [m EXCEPT
                          !.upper_slope =
                              IF SlopeLt(PointSub(p1, m.first_point), m.upper_slope)
                              THEN PointSub(p1, m.first_point) ELSE m.upper_slope,
                          !.lower_slope =
                              IF SlopeGt(PointSub(p2, m.first_point), m.lower_slope)
                              THEN PointSub(p2, m.first_point) ELSE m.lower_slope,
                          !.last_point = current_point,
                          !.points_in_segment = m.points_in_segment + 1]]

\* get_segment() with the end key taken from the first point.
GetSegmentEndFirst(m) ==
    IF m.points_in_segment = 1
    THEN [start_key |-> m.first_point.x, start_pos |-> m.first_point.y,
          end_key |-> m.first_point.x, num |-> 1, den |-> 1]
    ELSE [start_key |-> m.first_point.x, start_pos |-> m.first_point.y,
          end_key |-> m.first_point.x,
          num |-> m.upper_slope.dy * m.lower_slope.dx
                  + m.lower_slope.dy * m.upper_slope.dx,
          den |-> 2 * m.upper_slope.dx * m.lower_slope.dx]

\* get_segment(): slope 1 for a single point, else the midpoint of the cone,
\* (upper + lower) / 2 = (udy*ldx + ldy*udx) / (2*udx*ldx).
GetSegment(m) ==
    IF m.points_in_segment = 1
    THEN [start_key |-> m.first_point.x, start_pos |-> m.first_point.y,
          end_key |-> m.last_point.x, num |-> 1, den |-> 1]
    ELSE [start_key |-> m.first_point.x, start_pos |-> m.first_point.y,
          end_key |-> m.last_point.x,
          num |-> m.upper_slope.dy * m.lower_slope.dx
                  + m.lower_slope.dy * m.upper_slope.dx,
          den |-> 2 * m.upper_slope.dx * m.lower_slope.dx]

\* ------------------------------------------------------ get_all_segments
\* in_fun(i) of FitingTree's constructor: (data[i], i), i counted from 0.
InFun(idx) == <<data[idx + 1], idx>>

SegInit ==
    /\ \E len \in 1..MaxN : data \in SortedSeqs(len)
    /\ error \in 0..MaxError
    /\ i = 0 /\ start = 0 /\ kv = <<0, 0>>
    /\ plm = NewPlm
    /\ segments = <<>> /\ fiting_tree = <<>>
    /\ pc = "start" /\ qkey = -1
    /\ approx = [pos |-> 0, hi |-> 0, lo |-> 0]
    /\ bdata = <<>> /\ n = 0 /\ buffered_fiting_tree = <<>> /\ present = <<>>
    /\ last = NoCall /\ ret = NoRet /\ ops = 0

\* Lines 151-154: the model is constructed and the first point is fed before
\* the loop.  The constructor (lines 72-78) throws when error < 0; error is
\* a size_t, so it is never below zero and an error of 0 is accepted.
SegStart ==
    /\ pc = "start"
    /\ IF error < 0
       THEN /\ pc' = "failed"
            /\ UNCHANGED <<kv, plm, i>>
       ELSE /\ kv' = InFun(0)
            /\ plm' = AddPoint(plm, InFun(0)[1], InFun(0)[2], error).plm
            /\ i' = 1
            /\ pc' = "loop"
    /\ UNCHANGED <<data, error, start, segments, fiting_tree, qkey, approx, bufvars>>

\* One iteration of the for loop (lines 156-170).
SegStep ==
    /\ pc = "loop" /\ i < Len(data)
    /\ LET next_kv == InFun(i)
       IN  IF i # start /\ next_kv[1] = kv[1]
           THEN /\ i' = i + 1
                /\ UNCHANGED <<kv, plm, segments, start>>
           ELSE LET r == AddPoint(plm, next_kv[1], next_kv[2], error)
                IN  /\ kv' = next_kv
                    /\ plm' = r.plm
                    /\ IF r.ok
                       THEN /\ i' = i + 1
                            /\ UNCHANGED <<segments, start>>
                       ELSE /\ segments' = Append(segments, GetSegment(r.plm))
                            /\ start' = i
                            /\ i' = i
    /\ UNCHANGED <<data, error, fiting_tree, pc, qkey, approx, bufvars>>

\* Lines 172-173, then the constructor's reverse and bulk_load.  A FitingTree
\* exists only for Error > 0 (static_assert, fiting_tree.h:35).
SegFinish ==
    /\ pc = "loop" /\ i >= Len(data)
    /\ segments' = Append(segments, GetSegment(plm))
    /\ fiting_tree' = IF error > 0 THEN Reverse(segments') ELSE <<>>
    /\ pc' = "done"
    /\ UNCHANGED <<data, error, i, start, kv, plm, qkey, approx, bufvars>>

\* ------------------------------------------------ FitingTree (read-only)
\* fiting_tree.lower_bound(key) under std::greater: the first entry, in
\* descending start-key order, whose start key is <= key; 0 stands for end().
TreeLowerBound(tree, key) ==
    IF \E j \in 1..Len(tree) : tree[j].start_key <= key
    THEN CHOOSE j \in 1..Len(tree) :
            /\ tree[j].start_key <= key
            /\ \A l \in 1..(j - 1) : tree[l].start_key > key
    ELSE 0

\* floor of a / d for d > 0, a >= 0: the conversion of a non-negative
\* long double to uint64_t.
Trunc(a, d) == a \div d

\* get_approx_pos with the error left out of the upper end of the range.
GetApproxPosNoAdd(tree, nn, err, key) ==
    LET it == TreeLowerBound(tree, key)
    IN  IF it = 0 THEN [pos |-> 0, hi |-> err, lo |-> 0]
        ELSE LET s == tree[it]
                 pn == (key - s.start_key) * s.num + s.start_pos * s.den
             IN  [pos |-> Trunc(pn, s.den),
                  hi |-> Trunc(pn, s.den),
                  lo |-> IF pn <= err * s.den THEN 0
                         ELSE Trunc(pn - err * s.den, s.den)]

\* get_approx_pos with the range always starting at position 0.
GetApproxPosNoSub(tree, nn, err, key) ==
    LET it == TreeLowerBound(tree, key)
    IN  IF nn = 0 THEN [pos |-> 0, hi |-> 0, lo |-> 0]
        ELSE IF it = 0 THEN [pos |-> 0, hi |-> err, lo |-> 0]
        ELSE LET s == tree[it]
                 pn == (key - s.start_key) * s.num + s.start_pos * s.den
             IN  [pos |-> Trunc(pn, s.den),
                  hi |-> IF pn + err * s.den >= nn * s.den THEN nn
                         ELSE Trunc(pn + err * s.den, s.den),
                  lo |-> 0]

\* get_approx_pos(key).  pos = (key - start_key) * slope + intercept is the
\* rational pn / den.
GetApproxPos(tree, nn, err, key) ==
    IF nn = 0 THEN [pos |-> 0, hi |-> 0, lo |-> 0]
    ELSE
    LET it == TreeLowerBound(tree, key)
    IN  IF it = 0 THEN [pos |-> 0, hi |-> err, lo |-> 0]
        ELSE LET s == tree[it]
                 den == s.den
                 pn == (key - s.start_key) * s.num + s.start_pos * den
             IN  IF pn - err * den > nn * den
                 THEN [pos |-> nn - 1, hi |-> nn, lo |-> nn - 1]
                 ELSE [pos |-> Trunc(pn, den),
                       \* ADD_ERR(pos, Error, nn)
                       hi |-> IF pn + err * den >= nn * den THEN nn
                              ELSE Trunc(pn + err * den, den),
                       \* SUB_ERR(pos, Error)
                       lo |-> IF pn <= err * den THEN 0
                              ELSE Trunc(pn - err * den, den)]

\* A call of get_approx_pos on the built index.
Query ==
    /\ pc = "done" /\ error > 0
    /\ \E key \in 0..(MaxKey + 1) :
          /\ qkey' = key
          /\ approx' = GetApproxPos(fiting_tree, Len(data), error, key)
    /\ UNCHANGED <<data, error, i, start, kv, plm, segments, fiting_tree, pc, bufvars>>

SegNext == SegStart \/ SegStep \/ SegFinish \/ Query

SegSpec == SegInit /\ [][SegNext]_vars

\* ------------------------------------------------------ BufferedSegment
\* static constexpr members of BufferedFitingTree.
error_value == Error
seg_error == Error - BufferSize
buffer_size == BufferSize

\* DataItem(key, pos)
DataItem(k, p) == [key |-> k, pos |-> p, deleted |-> FALSE]

\* The BufferedSegment constructor: the segment's fields, the items it
\* covers, an empty buffer.
BufferedSegment(seg, p_keys, cap) ==
    [start_key |-> seg.start_key, start_pos |-> seg.start_pos,
     end_key |-> seg.end_key, num |-> seg.num, den |-> seg.den,
     keys |-> [j \in 1..Len(p_keys) |-> DataItem(p_keys[j][1], p_keys[j][2])],
     buffer |-> <<>>, buffer_size |-> 0, max_buffer_size |-> cap]

\* std::map::insert on the buffer, kept as a sequence in ascending key
\* order: an existing key is left as it is.
MapInsert(buf, item) ==
    IF \E j \in 1..Len(buf) : buf[j].key = item.key THEN buf
    ELSE LET below == Cardinality({j \in 1..Len(buf) : buf[j].key < item.key})
         IN  SubSeq(buf, 1, below) \o <<item>> \o SubSeq(buf, below + 1, Len(buf))

\* insert_buffer without the capacity test.
InsertBufferNoCap(s, key, pos) ==
    [ok |-> TRUE,
     seg |-> [s EXCEPT !.buffer = MapInsert(s.buffer, DataItem(key, pos)),
                       !.buffer_size = s.buffer_size + 1]]

\* insert_buffer(key, pos)
InsertBuffer(s, key, pos) ==
    IF s.buffer_size >= s.max_buffer_size THEN [ok |-> FALSE, seg |-> s]
    ELSE [ok |-> TRUE,
          seg |-> [s EXCEPT !.buffer = MapInsert(s.buffer, DataItem(key, pos)),
                            !.buffer_size = s.buffer_size + 1]]

\* size()
SegSize(s) == Len(s.keys) + s.buffer_size

\* A BufferedSegmentIterator is the pair <<key_it, buffer_it>> of 1-based
\* positions in keys and buffer; Len + 1 is the container's end().
SegEnd(s) == <<Len(s.keys) + 1, Len(s.buffer) + 1>>

\* The first position of seq whose item is not deleted, or 1 when all are
\* (the loops of begin() leave the iterator at the container's begin()).
FirstLive(seq) ==
    IF \E j \in 1..Len(seq) : ~seq[j].deleted
    THEN CHOOSE j \in 1..Len(seq) :
            ~seq[j].deleted /\ \A l \in 1..(j - 1) : seq[l].deleted
    ELSE 1

\* begin()
SegBegin(s) ==
    IF Len(s.keys) = 0 THEN SegEnd(s)
    ELSE <<FirstLive(s.keys), FirstLive(s.buffer)>>

\* Which side the iterator stands on: operator* and advance_iterator make
\* the same four-way choice.
OnBuffer(s, it) ==
    /\ it[2] <= Len(s.buffer)
    /\ \/ it[1] > Len(s.keys)
       \/ s.keys[it[1]].key > s.buffer[it[2]].key

\* BufferedSegmentIterator::advance_iterator()
SegAdvance(s, it) ==
    IF it[1] > Len(s.keys) /\ it[2] > Len(s.buffer) THEN SegEnd(s)
    ELSE IF OnBuffer(s, it) THEN <<it[1], it[2] + 1>>
    ELSE <<it[1] + 1, it[2]>>

\* BufferedSegmentIterator::operator*, for an iterator that is not end().
SegDeref(s, it) ==
    IF OnBuffer(s, it) THEN s.buffer[it[2]] ELSE s.keys[it[1]]

\* cnt applications of operator++.
RECURSIVE SegAdvanceN(_, _, _)
SegAdvanceN(s, it, cnt) ==
    IF cnt <= 0 \/ it = SegEnd(s) THEN it
    ELSE SegAdvanceN(s, SegAdvance(s, it), cnt - 1)

\* std::distance(first, last) on forward iterators.
RECURSIVE SegDistance(_, _, _)
SegDistance(s, first, lst) ==
    IF first = lst \/ first = SegEnd(s) THEN 0
    ELSE 1 + SegDistance(s, SegAdvance(s, first), lst)

\* std::lower_bound(first, first + len, key) with DataItem::operator<(key).
RECURSIVE StdLowerBound(_, _, _, _)
StdLowerBound(s, first, len, key) ==
    IF len <= 0 THEN first
    ELSE LET half == len \div 2
             middle == SegAdvanceN(s, first, half)
         IN  IF SegDeref(s, middle).key < key
             THEN StdLowerBound(s, SegAdvance(s, middle), len - half - 1, key)
             ELSE StdLowerBound(s, first, half, key)

\* The items operator++ visits from it to end(), in order.
RECURSIVE SegItemsFrom(_, _)
SegItemsFrom(s, it) ==
    IF it = SegEnd(s) THEN <<>>
    ELSE <<SegDeref(s, it)>> \o SegItemsFrom(s, SegAdvance(s, it))

\* The loop of merge_buffer over the items from begin().
RECURSIVE MergeLoop(_, _, _, _, _)
MergeLoop(items, j, new_key, new_pos, new_key_added) ==
    IF j > Len(items) THEN <<>>
    ELSE IF items[j].deleted
    THEN MergeLoop(items, j + 1, new_key, new_pos, new_key_added)
    ELSE IF ~new_key_added /\ new_key < items[j].key
    THEN <<<<new_key, new_pos>>>> \o MergeLoop(items, j, new_key, new_pos, TRUE)
    ELSE <<<<items[j].key, items[j].pos>>>>
            \o MergeLoop(items, j + 1, new_key, new_pos, new_key_added)

\* merge_buffer(new_key, new_pos)
MergeBuffer(s, new_key, new_pos) ==
    MergeLoop(SegItemsFrom(s, SegBegin(s)), 1, new_key, new_pos, FALSE)

\* The window of find and lower_bound: how many times the two for loops
\* step lower_bound_it and upper_bound_it.  pos = (key - start_key) * slope
\* is pn / den; a loop "for (; x > 0; --x)" on a long double x runs
\* ceil(x) times.
CeilSteps(a, d) == IF a <= 0 THEN 0 ELSE (a + d - 1) \div d

LowerSteps(s, key) ==
    LET pn == (key - s.start_key) * s.num
    IN  IF pn <= error_value * s.den THEN 0
        ELSE CeilSteps(pn - error_value * s.den, s.den)

UpperSteps(s, key) ==
    LET pn == (key - s.start_key) * s.num
    IN  IF pn + error_value * s.den >= SegSize(s) * s.den THEN SegSize(s)
        ELSE CeilSteps(pn + error_value * s.den, s.den)

\* Lines 86-100 / 118-132: the position std::lower_bound returns in segment s.
SearchSegment(s, key) ==
    LET lower_bound_it == SegAdvanceN(s, SegBegin(s), LowerSteps(s, key))
        upper_bound_it == SegAdvanceN(s, SegBegin(s), UpperSteps(s, key))
    IN  StdLowerBound(s, lower_bound_it,
                      SegDistance(s, lower_bound_it, upper_bound_it), key)

\* ------------------------------------------- get_all_segments_buffered
\* The source of get_all_segments_buffered is not part of the repository
\* files; it is modelled from its description: get_all_segments with
\* error seg_error, every emitted segment built as a BufferedSegment that
\* captures the points it covers (a repeated key is fed once) and has an
\* empty buffer of capacity buffer_size.
RECURSIVE BufferedLoop(_, _, _, _, _, _, _, _, _)
BufferedLoop(pts, err, cap, idx, st, lastkv, m, cur, out) ==
    IF idx >= Len(pts)
    THEN Append(out, BufferedSegment(GetSegment(m), cur, cap))
    ELSE LET next_kv == pts[idx + 1]
         IN  IF idx # st /\ next_kv[1] = lastkv[1]
             THEN BufferedLoop(pts, err, cap, idx + 1, st, lastkv, m, cur, out)
             ELSE LET r == AddPoint(m, next_kv[1], next_kv[2], err)
                  IN  IF r.ok
                      THEN BufferedLoop(pts, err, cap, idx + 1, st, next_kv, r.plm,
                                        Append(cur, next_kv), out)
                      ELSE BufferedLoop(pts, err, cap, idx, idx, next_kv, r.plm, <<>>,
                               Append(out, BufferedSegment(GetSegment(r.plm), cur, cap)))

GetAllSegmentsBuffered(pts, err, cap) ==
    IF Len(pts) = 0 THEN <<>>
    ELSE BufferedLoop(pts, err, cap, 1, 0, pts[1],
                      AddPoint(NewPlm, pts[1][1], pts[1][2], err).plm,
                      <<pts[1]>>, <<>>)

\* ---------------------------------------------------- the directory
\* stx::btree ordered by std::greater, kept as the sequence of its values in
\* iteration order (descending start key).  Position Len is rbegin(), the
\* smallest start key; 0 stands for rend() and for a failed lower_bound.

\* btree::insert of one (start_key, segment) pair: duplicates are not
\* allowed, so an existing key keeps its value.
TreeInsert(tree, seg) ==
    IF \E j \in 1..Len(tree) : tree[j].start_key = seg.start_key THEN tree
    ELSE LET above == Cardinality({j \in 1..Len(tree) : tree[j].start_key > seg.start_key})
         IN  SubSeq(tree, 1, above) \o <<seg>> \o SubSeq(tree, above + 1, Len(tree))

\* btree::insert(first, last) over segs[from..]
RECURSIVE TreeInsertRange(_, _, _)
TreeInsertRange(tree, segs, from) ==
    IF from > Len(segs) THEN tree
    ELSE TreeInsertRange(TreeInsert(tree, segs[from]), segs, from + 1)

\* The constructor: segment (data[i], i), reverse, bulk_load.
BulkLoad(keys) ==
    Reverse(GetAllSegmentsBuffered([j \in 1..Len(keys) |-> <<keys[j], j - 1>>],
                                   seg_error, buffer_size))

\* ------------------------------------------------- BufferedFitingTree
\* A BufferedFitingTreeIterator is [tree_it, segment_it]; end() is the pair
\* of rend() and the end() of the smallest-key segment.
End == [tree_it |-> 0, segment_it |-> <<0, 0>>]

\* Dereferencing an iterator that is not end().
Deref(tree, it) == SegDeref(tree[it.tree_it], it.segment_it)

\* find(key)
Find(tree, nn, key) ==
    IF nn = 0 THEN End
    ELSE LET it == TreeLowerBound(tree, key)
         IN  IF it = 0 THEN End
             ELSE LET s == tree[it]
                      segment_it == SearchSegment(s, key)
                  IN  IF segment_it # SegEnd(s) /\ SegDeref(s, segment_it).key = key
                      THEN IF SegDeref(s, segment_it).deleted THEN End
                           ELSE [tree_it |-> it, segment_it |-> segment_it]
                      ELSE End

\* begin() that starts at the directory's begin(), the largest start key.
BeginForward(tree, nn) ==
    IF nn = 0 THEN End
    ELSE [tree_it |-> 1, segment_it |-> SegBegin(tree[1])]

\* begin()
Begin(tree, nn) ==
    IF nn = 0 THEN End
    ELSE [tree_it |-> Len(tree), segment_it |-> SegBegin(tree[Len(tree)])]

\* The while loop of lower_bound (lines 141-151): skip deleted items,
\* moving to the next segment in ascending key order at a segment's end.
RECURSIVE SkipDeleted(_, _, _)
SkipDeleted(tree, it, segment_it) ==
    IF ~SegDeref(tree[it], segment_it).deleted
    THEN [tree_it |-> it, segment_it |-> segment_it]
    ELSE LET nxt == SegAdvance(tree[it], segment_it)
         IN  IF nxt = SegEnd(tree[it])
             THEN IF it - 1 = 0 THEN End
                  ELSE SkipDeleted(tree, it - 1, SegBegin(tree[it - 1]))
             ELSE SkipDeleted(tree, it, nxt)

\* lower_bound that searches no window: it starts at the segment's begin().
LowerBoundNoSearch(tree, nn, key) ==
    IF nn = 0 THEN End
    ELSE LET it == TreeLowerBound(tree, key)
         IN  IF it = 0 THEN Begin(tree, nn)
             ELSE SkipDeleted(tree, it, SegBegin(tree[it]))

\* lower_bound(key)
LowerBound(tree, nn, key) ==
    IF nn = 0 THEN End
    ELSE LET it == TreeLowerBound(tree, key)
         IN  IF it = 0 THEN Begin(tree, nn)
             ELSE LET segment_it == SearchSegment(tree[it], key)
                  IN  IF segment_it = SegEnd(tree[it])
                      THEN IF it - 1 = 0 THEN End
                           ELSE SkipDeleted(tree, it - 1, SegBegin(tree[it - 1]))
                      ELSE SkipDeleted(tree, it, segment_it)

\* BufferedFitingTreeIterator::advance_iterator()
Advance(tree, it) ==
    IF it.tree_it = 0 THEN End
    ELSE LET nxt == SegAdvance(tree[it.tree_it], it.segment_it)
         IN  IF nxt = SegEnd(tree[it.tree_it])
             THEN IF it.tree_it - 1 = 0 THEN End
                  ELSE [tree_it |-> it.tree_it - 1,
                        segment_it |-> SegBegin(tree[it.tree_it - 1])]
             ELSE [tree_it |-> it.tree_it, segment_it |-> nxt]

\* for (it = begin(); it != end(); ++it): the items visited from it on.
RECURSIVE IterateFrom(_, _)
IterateFrom(tree, it) ==
    IF it = End THEN <<>>
    ELSE <<Deref(tree, it)>> \o IterateFrom(tree, Advance(tree, it))

Iterate(tree, nn) == IterateFrom(tree, Begin(tree, nn))

\* DataItem::set_deleted() on the item the iterator refers to.
SetDeleted(tree, it) ==
    LET s == tree[it.tree_it]
    IN  IF OnBuffer(s, it.segment_it)
        THEN [tree EXCEPT ![it.tree_it].buffer[it.segment_it[2]].deleted = TRUE]
        ELSE [tree EXCEPT ![it.tree_it].keys[it.segment_it[1]].deleted = TRUE]

\* erase(key): the directory afterwards.
EraseTree(tree, nn, key) ==
    LET it == Find(tree, nn, key)
    IN  IF it = End THEN tree ELSE SetDeleted(tree, it)

\* insert(key, pos): the directory afterwards.  On overflow the first new
\* segment is assigned to current_segment, a copy of the directory's value,
\* so the directory keeps the old segment; the other new segments are
\* inserted.  With an empty merged list formatted_segments.begin() is
\* dereferenced at end(): the call does not complete and the directory is
\* left as it was.
InsertTree(tree, nn, key, pos) ==
    IF Find(tree, nn, key) # End THEN tree
    ELSE LET lb == TreeLowerBound(tree, key)
             it == IF lb = 0 THEN Len(tree) ELSE lb
             r == InsertBuffer(tree[it], key, pos)
         IN  IF r.ok THEN [tree EXCEPT ![it] = r.seg]
             ELSE LET merged_keys == MergeBuffer(tree[it], key, pos)
                      new_segments ==
                          GetAllSegmentsBuffered(merged_keys, seg_error, buffer_size)
                  IN  IF Len(new_segments) = 0 THEN tree
                      ELSE TreeInsertRange(tree, new_segments, 2)

\* The part of the state the buffered index does not touch.
SegIdle ==
    /\ data = <<>> /\ error = 1 /\ i = 0 /\ start = 0 /\ kv = <<0, 0>>
    /\ plm = NewPlm /\ segments = <<>> /\ fiting_tree = <<>>
    /\ pc = "idle" /\ qkey = -1
    /\ approx = [pos |-> 0, hi |-> 0, lo |-> 0]

\* The index as constructed from the sorted keys.
Constructed(keys) ==
    /\ bdata = keys
    /\ n = Len(keys)
    /\ buffered_fiting_tree = BulkLoad(keys)
    /\ present = [k \in {keys[j] : j \in 1..Len(keys)} |->
                    (CHOOSE j \in 1..Len(keys) :
                        keys[j] = k /\ \A l \in 1..(j - 1) : keys[l] # k) - 1]
    /\ last = NoCall /\ ret = NoRet /\ ops = 0

\* What a returned iterator shows to the caller.
Returned(tree, it) ==
    IF it = End THEN NoRet
    ELSE [found |-> TRUE, item |-> Deref(tree, it), items |-> <<>>]

\* Whether insert(key, .) would find its target segment's buffer full.
TargetFull(tree, key) ==
    LET lb == TreeLowerBound(tree, key)
        it == IF lb = 0 THEN Len(tree) ELSE lb
    IN  tree[it].buffer_size >= tree[it].max_buffer_size

\* ---- updates: insert and erase on a bulk-loaded index
Init ==
    /\ SegIdle
    /\ \E len \in 1..BMaxN : \E keys \in IncreasingSeqs(len, BMaxKey) :
          Constructed(keys)

Insert ==
    /\ ops < MaxOps
    /\ \E key \in 0..BMaxKey, pos \in {0, MaxPos} :
          /\ buffered_fiting_tree' = InsertTree(buffered_fiting_tree, n, key, pos)
          /\ present' = IF key \in DOMAIN present THEN present
                        ELSE (key :> pos) @@ present
          /\ last' = [op |-> "insert", key |-> key, pos |-> pos,
                      absent |-> key \notin DOMAIN present,
                      full |-> TargetFull(buffered_fiting_tree, key)]
    /\ ops' = ops + 1
    /\ UNCHANGED <<bdata, n, ret, segvars>>

Erase ==
    /\ ops < MaxOps
    /\ \E key \in 0..BMaxKey :
          /\ buffered_fiting_tree' = EraseTree(buffered_fiting_tree, n, key)
          /\ present' = [k \in DOMAIN present \ {key} |-> present[k]]
          /\ last' = [op |-> "erase", key |-> key, pos |-> 0,
                      absent |-> key \notin DOMAIN present, full |-> FALSE]
    /\ ops' = ops + 1
    /\ UNCHANGED <<bdata, n, ret, segvars>>

Next == Insert \/ Erase

Spec == Init /\ [][Next]_vars

\* ---- reads on a freshly bulk-loaded index.  The keys are distinct: how a
\* repeated key is captured is decided by get_all_segments_buffered.
BulkInit ==
    /\ SegIdle
    /\ \E len \in 1..MaxN : \E keys \in IncreasingSeqs(len, MaxKey) :
          Constructed(keys)

FindCall ==
    \E key \in 0..(MaxKey + 1) :
        /\ ops = 0 /\ ops' = 1
        /\ last' = [NoCall EXCEPT !.op = "find", !.key = key]
        /\ ret' = Returned(buffered_fiting_tree, Find(buffered_fiting_tree, n, key))
        /\ UNCHANGED <<bdata, n, buffered_fiting_tree, present, segvars>>

LowerBoundCall ==
    \E key \in 0..(MaxKey + 1) :
        /\ ops = 0 /\ ops' = 1
        /\ last' = [NoCall EXCEPT !.op = "lower_bound", !.key = key]
        /\ ret' = Returned(buffered_fiting_tree,
                           LowerBound(buffered_fiting_tree, n, key))
        /\ UNCHANGED <<bdata, n, buffered_fiting_tree, present, segvars>>

IterateCall ==
    /\ ops = 0 /\ ops' = 1
    /\ last' = [NoCall EXCEPT !.op = "iterate"]
    /\ ret' = [NoRet EXCEPT !.items = Iterate(buffered_fiting_tree, n)]
    /\ UNCHANGED <<bdata, n, buffered_fiting_tree, present, segvars>>

BulkNext == FindCall \/ LowerBoundCall \/ IterateCall

BulkSpec == BulkInit /\ [][BulkNext]_vars

\* ------------------------------------------------------------ properties
Abs(a) == IF a < 0 THEN -a ELSE a

\* 0-based index of the first occurrence of key k in data.
FirstIndex(k) ==
    (CHOOSE j \in 1..Len(data) :
        data[j] = k /\ \A l \in 1..(j - 1) : data[l] # k) - 1

InData(k) == \E j \in 1..Len(data) : data[j] = k

\* The emitted segment covering k: the one with the largest start key <= k.
Covering(k) ==
    CHOOSE j \in 1..Len(segments) :
        /\ segments[j].start_key <= k
        /\ \A l \in 1..Len(segments) :
              segments[l].start_key <= k => segments[l].start_key <= segments[j].start_key

\* C1: once get_all_segments has returned, for every distinct key k of the
\* input, first found at index i, the segment S covering k predicts a
\* position within error + 1 of i:
\* |i - (S.start_pos + S.slope * (k - S.start_key))| <= error + 1.
C1_ErrorBound ==
    pc = "done" =>
        \A j \in 1..Len(data) :
            LET k == data[j]
                s == segments[Covering(k)]
            IN  Abs(FirstIndex(k) * s.den
                    - (s.start_pos * s.den + s.num * (k - s.start_key)))
                <= (error + 1) * s.den

\* C1 witness: a finished segmentation of an input with a repeated key that
\* needed at least two segments, one of them with three points or more.
C1_Witness ==
    /\ pc = "done" /\ Len(segments) >= 2
    /\ \E j \in 1..(Len(data) - 1) : data[j] = data[j + 1]
    /\ \E j \in 1..Len(segments) : segments[j].den > 1

\* C2: the emitted segments have strictly increasing start keys, their key
\* ranges [start_key, end_key] are pairwise disjoint, every input key lies in
\* exactly one range, the first segment starts at the smallest key and the
\* last one ends at the largest key.
C2_Coverage ==
    pc = "done" =>
        /\ \A j \in 1..(Len(segments) - 1) :
              /\ segments[j].start_key < segments[j + 1].start_key
              /\ segments[j].end_key < segments[j + 1].start_key
        /\ \A j \in 1..Len(segments) : segments[j].start_key <= segments[j].end_key
        /\ \A j \in 1..Len(data) :
              Cardinality({l \in 1..Len(segments) :
                  segments[l].start_key <= data[j] /\ data[j] <= segments[l].end_key}) = 1
        /\ segments[1].start_key = data[1]
        /\ segments[Len(segments)].end_key = data[Len(data)]

\* C2 witness: a finished segmentation in two segments or more, one of them
\* spanning several keys, of an input that repeats its largest key.
C2_Witness ==
    /\ pc = "done" /\ Len(segments) >= 2
    /\ \E j \in 1..Len(segments) : segments[j].start_key < segments[j].end_key
    /\ Len(data) >= 2 /\ data[Len(data)] = data[Len(data) - 1]

\* C3: for a key present in data, the index of its first occurrence lies in
\* the closed range [lo, hi] returned by get_approx_pos.
C3_ClosedRange ==
    (pc = "done" /\ qkey >= 0 /\ InData(qkey)) =>
        /\ approx.lo <= FirstIndex(qkey)
        /\ FirstIndex(qkey) <= approx.hi

\* C3 witness: a query for a repeated key that is not the first key of its
\* segment, in an index of two segments or more.
C3_Witness ==
    /\ pc = "done" /\ qkey >= 0 /\ InData(qkey)
    /\ Len(segments) >= 2
    /\ \E j \in 1..(Len(data) - 1) : data[j] = qkey /\ data[j + 1] = qkey
    /\ segments[Covering(qkey)].start_key < qkey

\* C4: for a key present in data, the index of its first occurrence lies in
\* the half-open range [lo, hi) returned by get_approx_pos.
C4_HalfOpenRange ==
    (pc = "done" /\ qkey >= 0 /\ InData(qkey)) =>
        /\ approx.lo <= FirstIndex(qkey)
        /\ FirstIndex(qkey) < approx.hi


\* What find(k) shows: the item found, or NoRet for end().
FindResult(k) ==
    Returned(buffered_fiting_tree, Find(buffered_fiting_tree, n, k))

\* The keys an iteration from begin() to end() yields, in order.
IterKeys(items) == [j \in 1..Len(items) |-> items[j].key]

\* C5: after any sequence of insert and erase calls, every key that is
\* currently present is found by find: the result is not end(), its key is
\* the key sought and it is not deleted.
C5_PresentFound ==
    \A k \in DOMAIN present :
        /\ FindResult(k).found
        /\ FindResult(k).item.key = k
        /\ ~FindResult(k).item.deleted

\* C6: after any sequence of insert and erase calls, find returns end() for
\* every key that is not currently present.
C6_AbsentNotFound ==
    \A k \in 0..BMaxKey : k \notin DOMAIN present => ~FindResult(k).found

\* C7: after insert(k, p) of a key k that was not present, find(k) returns
\* an item with key k and position p.
C7_InsertThenFind ==
    (last.op = "insert" /\ last.absent) =>
        /\ FindResult(last.key).found
        /\ FindResult(last.key).item.key = last.key
        /\ FindResult(last.key).item.pos = last.pos

\* C8: after any sequence of insert and erase calls, iterating from begin()
\* to end() yields strictly ascending keys, no deleted item, and exactly
\* the currently-present keys.
C8_IterationOrder ==
    LET items == Iterate(buffered_fiting_tree, n)
    IN  /\ \A j \in 1..(Len(items) - 1) : items[j].key < items[j + 1].key
        /\ \A j \in 1..Len(items) : ~items[j].deleted
        /\ {items[j].key : j \in 1..Len(items)} = DOMAIN present

\* C9: iterating a freshly bulk-loaded index of distinct sorted keys yields
\* exactly the original key sequence.
C9_RoundTrip ==
    last.op = "iterate" =>
        /\ IterKeys(ret.items) = bdata
        /\ Len(ret.items) = n

\* C9 witness: the iteration of an index of two segments or more, bulk-loaded
\* with MaxN distinct keys.
C9_Witness ==
    /\ last.op = "iterate" /\ Len(bdata) = MaxN
    /\ Len(buffered_fiting_tree) >= 2
    /\ Len(ret.items) = Len(bdata)

C11_InsertIdempotent ==
    [][(ops' = ops + 1 /\ last'.op = "insert" /\ ~last'.absent) =>
          LET after == Returned(buffered_fiting_tree',
                                Find(buffered_fiting_tree', n', last'.key))
          IN  /\ buffered_fiting_tree' = buffered_fiting_tree
              /\ after.found
              /\ after.item.key = last'.key
              /\ after.item.pos = present[last'.key]]_vars

\* C12: in every state, erase(k) of a key k that is not currently present
\* leaves the directory and every segment unchanged, and for every key k
\* erase(k) followed by erase(k) gives the same state as a single erase(k).
C12_EraseAbsentNoOp ==
    \A k \in 0..BMaxKey :
        LET once == EraseTree(buffered_fiting_tree, n, k)
        IN  /\ k \notin DOMAIN present => once = buffered_fiting_tree
            /\ EraseTree(once, n, k) = once

\* C13: on an index built on n >= 1 sorted keys, get_approx_pos of a key
\* strictly greater than the largest indexed key returns pos = n - 1,
\* lo = n - 1 and hi = n.
C13_AboveRange ==
    (pc = "done" /\ qkey > data[Len(data)]) =>
        approx = [pos |-> Len(data) - 1, hi |-> Len(data), lo |-> Len(data) - 1]

\* C14: on an index built on n >= 1 sorted keys, get_approx_pos of a key
\* strictly greater than the largest indexed key returns hi = n with
\* lo <= hi, so that the binary search over data[lo, hi) ends at the end of
\* the data.
C14_SearchPastEnd ==
    (pc = "done" /\ qkey > data[Len(data)]) =>
        /\ approx.hi = Len(data)
        /\ approx.lo <= approx.hi

\* std::lower_bound(data.begin() + first, data.begin() + first + len, key) as
\* the caller runs it on the returned range: the set of indices it can
\* return.  A probe at or past data.end() reads outside the vector; the
\* comparison can then go either way.
RECURSIVE DataLowerBound(_, _, _)
DataLowerBound(first, len, key) ==
    IF len <= 0 THEN {first}
    ELSE LET half == len \div 2
             middle == first + half
             right == DataLowerBound(middle + 1, len - half - 1, key)
             left == DataLowerBound(first, half, key)
         IN  IF middle >= Len(data) THEN left \cup right
             ELSE IF data[middle + 1] < key THEN right
             ELSE left

C16_RangeClamped ==
    (pc = "done" /\ qkey >= 0) =>
        /\ 0 <= approx.lo
        /\ approx.lo <= approx.hi
        /\ approx.hi <= Len(data)

\* C17: the range returned by get_approx_pos is at most 2 * error + 1
\* positions wide, hi - lo <= 2 * error, for every index (the empty one
\* included) and every query key.
C17_RangeWidth ==
    /\ (pc = "done" /\ qkey >= 0) => approx.hi - approx.lo <= 2 * error
    /\ \A key \in 0..(MaxKey + 1) :
          LET empty == GetApproxPos(<<>>, 0, error, key)
          IN  empty.hi - empty.lo <= 2 * error

\* C17 witness: a query inside the key range of an index of two segments or
\* more whose range is exactly 2 * error wide and is cut by neither end of
\* the data.
C17_Witness ==
    /\ pc = "done" /\ qkey >= data[1] /\ qkey <= data[Len(data)]
    /\ Len(fiting_tree) >= 2
    /\ approx.hi - approx.lo = 2 * error
    /\ approx.lo > 0 /\ approx.hi < Len(data)

\* C18: constructing the segmenter with an error of 0 or less ends in the
\* configuration-error outcome: the run never gets past construction and no
\* segment is emitted.
C18_InvalidErrorRejected ==
    error <= 0 =>
        /\ pc \in {"start", "failed"}
        /\ segments = <<>>

\* The keys stored in a segment, live or not, in keys or in buffer.
StoredKeys(s) ==
    {s.keys[j].key : j \in 1..Len(s.keys)}
        \cup {s.buffer[j].key : j \in 1..Len(s.buffer)}

\* C19: when insert(k, p) of a key that is not present finds the buffer of
\* its target segment full, then after the call no directory entry holds the
\* old segment value, every entry that was not there before has an empty
\* buffer, the start keys of the directory are distinct and in order, and
\* every key of the merged list, k included, is stored in exactly one
\* segment.
C19_OverflowSplice ==
    [][(ops' = ops + 1 /\ last'.op = "insert" /\ last'.absent /\ last'.full) =>
          LET tree == buffered_fiting_tree
              after == buffered_fiting_tree'
              lb == TreeLowerBound(tree, last'.key)
              old == tree[IF lb = 0 THEN Len(tree) ELSE lb]
              merged == MergeBuffer(old, last'.key, last'.pos)
              merged_keys == {merged[j][1] : j \in 1..Len(merged)} \cup {last'.key}
          IN  /\ \A j \in 1..Len(after) : after[j] # old
              /\ \A j \in 1..Len(after) :
                    (\A l \in 1..Len(tree) : tree[l] # after[j]) =>
                        (after[j].buffer = <<>> /\ after[j].buffer_size = 0)
              /\ \A j \in 1..(Len(after) - 1) :
                    after[j].start_key > after[j + 1].start_key
              /\ \A k \in merged_keys :
                    Cardinality({j \in 1..Len(after) : k \in StoredKeys(after[j])}) = 1
         ]_vars

\* The non-deleted items of a sequence of items, as (key, pos) pairs.
LiveItems(items) ==
    {<<items[j].key, items[j].pos>> : j \in {l \in 1..Len(items) : ~items[l].deleted}}

\* What the claim requires of merge_buffer(new_k, new_p) on segment s.
MergedExactly(s, new_k, new_p) ==
    LET merged == MergeBuffer(s, new_k, new_p)
        expected == LiveItems(s.keys) \cup LiveItems(s.buffer) \cup {<<new_k, new_p>>}
    IN  /\ \A j \in 1..(Len(merged) - 1) : merged[j][1] < merged[j + 1][1]
        /\ {merged[j] : j \in 1..Len(merged)} = expected
        /\ Len(merged) = Cardinality(expected)

\* C20: for every segment of the index, also with its keys taken away, and
\* every new key that is not a live key of it, merge_buffer(new_k, new_p)
\* returns a list sorted strictly ascending by key that holds exactly the
\* non-deleted items of keys, the non-deleted items of buffer and
\* (new_k, new_p), each once.
C20_MergeBufferResult ==
    \A j \in 1..Len(buffered_fiting_tree) :
        \A s \in {buffered_fiting_tree[j],
                  [buffered_fiting_tree[j] EXCEPT !.keys = <<>>]} :
            \A new_k \in 0..(BMaxKey + 1), new_p \in {0, MaxPos} :
                (\A item \in LiveItems(s.keys) \cup LiveItems(s.buffer) :
                      item[1] # new_k)
                    => MergedExactly(s, new_k, new_p)

\* C21: insert(k, p) of an absent key k smaller than the smallest segment
\* start key stores k in the smallest-key segment; afterwards find(k)
\* returns the item (k, p) and the iteration from begin() yields k first.
C21_InsertBelowSmallest ==
    [][(ops' = ops + 1 /\ last'.op = "insert" /\ last'.absent
            /\ last'.key < buffered_fiting_tree[Len(buffered_fiting_tree)].start_key) =>
          LET after == buffered_fiting_tree'
              found == Returned(after, Find(after, n', last'.key))
              items == Iterate(after, n')
          IN  /\ last'.key \in StoredKeys(after[Len(after)])
              /\ found.found
              /\ found.item.key = last'.key
              /\ found.item.pos = last'.pos
              /\ ~found.item.deleted
              /\ Len(items) >= 1
              /\ items[1].key = last'.key
         ]_vars

\* C22: after any sequence of insert and erase calls, for every key k that
\* is not currently present, lower_bound(k) returns the smallest present
\* key greater than k, not deleted, and end() when no present key is
\* greater than k.
C22_LowerBoundAbsent ==
    \A k \in 0..(BMaxKey + 1) :
        k \notin DOMAIN present =>
            LET r == Returned(buffered_fiting_tree,
                              LowerBound(buffered_fiting_tree, n, k))
                greater == {j \in DOMAIN present : j > k}
            IN  IF greater = {} THEN ~r.found
                ELSE /\ r.found
                     /\ ~r.item.deleted
                     /\ r.item.key \in greater
                     /\ \A j \in greater : r.item.key <= j

\* C23: in every reachable state, every present item of a segment S sits, in
\* the iteration of S from begin(), at an index that differs from the
\* predicted offset S.slope * (k - S.start_key) by at most
\* error_value = seg_error + buffer_size, and the window
\* [pos - error_value, pos + error_value] that find walks contains it.
C23_ErrorBudget ==
    \A j \in 1..Len(buffered_fiting_tree) :
        LET s == buffered_fiting_tree[j]
            items == SegItemsFrom(s, SegBegin(s))
        IN  \A idx \in 1..Len(items) :
                (~items[idx].deleted /\ items[idx].key \in DOMAIN present) =>
                    /\ Abs((idx - 1) * s.den - s.num * (items[idx].key - s.start_key))
                          <= error_value * s.den
                    /\ LowerSteps(s, items[idx].key) <= idx - 1
                    /\ idx - 1 <= UpperSteps(s, items[idx].key)

\* C24: in get_all_segments a segment is closed inside the loop only when
\* the slope from the segment's first point to the next distinct point lies
\* strictly outside [lower_slope, upper_slope]; the closed segment ends at
\* the last accepted key; the rejected point is fed again at once and
\* becomes the first point of the next segment, so that every emitted
\* segment starts at the key and position of the point rejected before it
\* (the first input point for the first segment); and at the end every input
\* index lies in exactly one segment, whose key range holds its key.
C24_GreedyClose ==
    [][/\ (pc' = "loop" /\ Len(segments') = Len(segments) + 1) =>
            LET offered == [x |-> InFun(i)[1], y |-> InFun(i)[2]]
                slope == PointSub(offered, plm.first_point)
            IN  /\ offered.x # kv[1]
                /\ plm.points_in_segment >= 2
                /\ SlopeLt(slope, plm.lower_slope) \/ SlopeGt(slope, plm.upper_slope)
                /\ plm.last_point.x = kv[1]
                /\ segments'[Len(segments')].end_key = kv[1]
                /\ i' = i /\ start' = i /\ plm'.points_in_segment = 0
       /\ (pc = "loop" /\ plm.points_in_segment = 0) =>
            /\ i = start /\ i < Len(data)
            /\ segments' = segments /\ i' = i + 1
            /\ plm'.first_point = [x |-> data[i + 1], y |-> i]
            /\ plm'.points_in_segment = 1
       /\ Len(segments') = Len(segments) + 1 =>
            /\ segments'[Len(segments')].start_key = data[start + 1]
            /\ segments'[Len(segments')].start_pos = start
       /\ (pc = "loop" /\ pc' = "done") =>
            \A idx \in 0..(Len(data) - 1) :
                LET holds == {j \in 1..Len(segments') :
                                /\ segments'[j].start_pos <= idx
                                /\ idx < (IF j = Len(segments') THEN Len(data)
                                          ELSE segments'[j + 1].start_pos)}
                IN  /\ Cardinality(holds) = 1
                    /\ \A j \in holds :
                          /\ segments'[j].start_key <= data[idx + 1]
                          /\ data[idx + 1] <= segments'[j].end_key
      ]_vars

\* C24 witness: the state right after a close: a point at index 3 or later
\* of an input with a repeated key was rejected under a positive error and
\* is about to be fed again.
C24_Witness ==
    /\ pc = "loop" /\ plm.points_in_segment = 0 /\ Len(segments) >= 1
    /\ error > 0 /\ i >= 3 /\ i = start
    /\ \E j \in 1..(Len(data) - 1) : data[j] = data[j + 1]

\* C25: in every reachable state the stored count n equals the number of
\* currently-present keys.
C25_KeyCount ==
    n = Cardinality(DOMAIN present)

\* C26: in every reachable state, within every segment no key is both the
\* key of a non-deleted item of keys and the key of an item of buffer.
C26_KeysBufferDisjoint ==
    \A j \in 1..Len(buffered_fiting_tree) :
        LET s == buffered_fiting_tree[j]
        IN  \A a \in 1..Len(s.keys), b \in 1..Len(s.buffer) :
                ~s.keys[a].deleted => s.keys[a].key # s.buffer[b].key

\* C27: in every reachable state every segment has a buffer length of at
\* most its capacity B, and insert_buffer(k, p) on it returns false exactly
\* when the buffer length is B, leaving keys, buffer and buffer length as
\* they were.
C27_BufferCapacity ==
    \A j \in 1..Len(buffered_fiting_tree) :
        LET s == buffered_fiting_tree[j]
        IN  /\ s.max_buffer_size = buffer_size
            /\ s.buffer_size <= buffer_size
            /\ Len(s.buffer) <= buffer_size
            /\ \A k \in 0..BMaxKey, p \in {0, MaxPos} :
                  LET r == InsertBuffer(s, k, p)
                  IN  /\ ~r.ok <=> s.buffer_size = buffer_size
                      /\ ~r.ok => /\ r.seg.keys = s.keys
                                  /\ r.seg.buffer = s.buffer
                                  /\ r.seg.buffer_size = s.buffer_size

\* C27 witness: an insert of an absent key has just met a full buffer, in
\* an index of two segments or more that holds a full buffer and a buffer
\* with room.
C27_Witness ==
    /\ last.op = "insert" /\ last.absent /\ last.full
    /\ Len(buffered_fiting_tree) >= 2
    /\ \E j \in 1..Len(buffered_fiting_tree) :
          buffered_fiting_tree[j].buffer_size = buffer_size
    /\ \E j \in 1..Len(buffered_fiting_tree) :
          buffered_fiting_tree[j].buffer_size < buffer_size

\* C28: when erase(k) of a present key k is followed by insert(k, p'), then
\* find(k) is not end() and returns an item with key k, not deleted, with
\* position p'.
C28_EraseThenInsert ==
    [][(ops' = ops + 1 /\ last.op = "erase" /\ ~last.absent
            /\ last'.op = "insert" /\ last'.key = last.key) =>
          LET found == Returned(buffered_fiting_tree',
                                Find(buffered_fiting_tree', n', last'.key))
          IN  /\ found.found
              /\ found.item.key = last'.key
              /\ ~found.item.deleted
              /\ found.item.pos = last'.pos
      ]_vars

\* C29: erase(k) of a present key k changes nothing but the deleted flag of
\* k's item: every segment keeps its fields, the number and order of its
\* items and their keys and positions, no item but one with key k changes
\* its deleted flag, which becomes true, and for every other key j the
\* result of find(j) is the same after the erase as before it.
C29_EraseFrame ==
    [][(ops' = ops + 1 /\ last'.op = "erase" /\ ~last'.absent) =>
          LET tree == buffered_fiting_tree
              after == buffered_fiting_tree'
              Flat(s) == s.keys \o s.buffer
              flipped == {<<j, l>> \in (1..Len(tree)) \X (1..(BMaxN + MaxOps)) :
                            /\ l <= Len(Flat(tree[j]))
                            /\ Flat(tree[j])[l].deleted # Flat(after[j])[l].deleted}
          IN  /\ Len(after) = Len(tree)
              /\ \A j \in 1..Len(tree) :
                    /\ Len(after[j].keys) = Len(tree[j].keys)
                    /\ Len(after[j].buffer) = Len(tree[j].buffer)
                    /\ [after[j] EXCEPT !.keys = <<>>, !.buffer = <<>>]
                          = [tree[j] EXCEPT !.keys = <<>>, !.buffer = <<>>]
                    /\ \A l \in 1..Len(Flat(tree[j])) :
                          /\ Flat(after[j])[l].key = Flat(tree[j])[l].key
                          /\ Flat(after[j])[l].pos = Flat(tree[j])[l].pos
              /\ Cardinality(flipped) <= 1
              /\ \A f \in flipped :
                    /\ Flat(tree[f[1]])[f[2]].key = last'.key
                    /\ Flat(after[f[1]])[f[2]].deleted
              /\ \A k \in (0..BMaxKey) \ {last'.key} :
                    Returned(after, Find(after, n', k)) = Returned(tree, Find(tree, n, k))
      ]_vars

\* C30: for the points get_all_segments feeds (strictly increasing keys,
\* increasing positions) under an error above 0: whenever the segment holds
\* two points or more, lower_slope <= upper_slope under cross-multiplication;
\* a point accepted into such a segment neither raises upper_slope nor
\* lowers lower_slope; and for every point accepted into the segment after
\* its first one, the slope from the first point to the point moved down by
\* the error is at most lower_slope and the slope to the point moved up by
\* the error is at least upper_slope, so the point's own slope lies within
\* [lower_slope, upper_slope] widened by its error band.
C30_ConeInvariant ==
    [][error > 0 =>
        /\ (plm.points_in_segment >= 2
                /\ plm'.points_in_segment = plm.points_in_segment + 1) =>
              /\ ~SlopeGt(plm'.upper_slope, plm.upper_slope)
              /\ ~SlopeLt(plm'.lower_slope, plm.lower_slope)
              /\ plm'.first_point = plm.first_point
        /\ plm'.points_in_segment >= 2 =>
              /\ ~SlopeGt(plm'.lower_slope, plm'.upper_slope)
              /\ \A idx \in (start' + 1)..(i' - 1) :
                    data[idx + 1] # data[idx] =>
                        LET down == PointSub([x |-> data[idx + 1], y |-> idx - error],
                                             plm'.first_point)
                            up == PointSub([x |-> data[idx + 1], y |-> idx + error],
                                           plm'.first_point)
                        IN  /\ ~SlopeGt(down, plm'.lower_slope)
                            /\ ~SlopeLt(up, plm'.upper_slope)
                            /\ ~SlopeGt(down, plm'.upper_slope)
                            /\ ~SlopeLt(up, plm'.lower_slope)
      ]_vars

\* C30 witness: inside the loop a segment holds three points or more under
\* a positive error, its cone is not a single line, and both of its borders
\* lie strictly inside the error band of one of its points.
C30_Witness ==
    /\ pc = "loop" /\ error > 0
    /\ plm.points_in_segment >= 3
    /\ SlopeLt(plm.lower_slope, plm.upper_slope)
    /\ \E idx \in (start + 1)..(i - 1) :
          /\ data[idx + 1] # data[idx]
          /\ SlopeGt(plm.lower_slope,
                     PointSub([x |-> data[idx + 1], y |-> idx - error], plm.first_point))
          /\ SlopeLt(plm.upper_slope,
                     PointSub([x |-> data[idx + 1], y |-> idx + error], plm.first_point))
====
